---- MODULE Spec2Model ----
(***************************************************************************)
(* Model of the journal note store of src/app.py: the NotesLinkedList      *)
(* container, the JSON persistence of JournalAppBackend and the mutating   *)
(* HTTP routes.  The linked list is the sequence of its nodes from head;   *)
(* a note is the dict of its JSON fields (a function on field names).      *)
(***************************************************************************)
EXTENDS Integers, Sequences, FiniteSets, TLC

VARIABLES notes_list, data_file, last, handlers

vars == <<notes_list, data_file, last, handlers>>

\* ---------------------------------------------------------------- bounds
\* add_note calls one process may make (caps the insertion counter)
MaxInserts == 3

\* add_note calls the concurrently served requests may make
MaxThreadInserts == 2

\* ---------------------------------------------------------------- inputs
\* ids a caller supplies or asks about; generated ids fall in the same range
Ids == {1, 2}
\* readings of datetime.now(): milliseconds since the epoch and isoformat()
Nows == {[ms |-> 2, iso |-> "2024-03-01T09:00:00"]}
SuppliedDate == "2024-02-29T10:00:00"

\* the JSON object {}
EmptyDict == [k \in {} |-> 0]

Opt(k, vals) == {EmptyDict} \cup {k :> v : v \in vals}

\* JSON bodies of POST /api/notes that pass validation: one with every field
\* supplied, the others leaving id (absent or 0), date, photos and title out
Required == ("text" :> "Good day") @@ ("mood" :> "happy")

FullBody ==
  Required @@ ("id" :> 1) @@ ("date" :> SuppliedDate)
           @@ ("title" :> "Leap day") @@ ("photos" :> <<"p1", "p2">>)

ValidRequests ==
  {b @@ x : b \in {FullBody, Required @@ ("id" :> 2), Required @@ ("id" :> 0),
                   Required},
            x \in Opt("deleted", {TRUE})}

\* bodies with text or mood missing or empty
InvalidRequests ==
  {t @@ m @@ i :
     t \in Opt("text", {"", "Good day"}),
     m \in Opt("mood", {"", "happy"}),
     i \in Opt("id", {1})} \ {Required, Required @@ ("id" :> 1)}

Requests == ValidRequests \cup InvalidRequests

\* dict.get(key) is None (falsy) when the key is absent; "" and 0 are falsy
Has(d, k) == \E x \in DOMAIN d : x = k
FalsyStr(d, k) == IF Has(d, k) THEN d[k] = "" ELSE TRUE
FalsyInt(d, k) == IF Has(d, k) THEN d[k] = 0 ELSE TRUE

\* d[k] = v on a dict
Put(d, k, v) == [x \in DOMAIN d \cup {k} |-> IF x = k THEN v ELSE d[x]]

RECURSIVE Reverse(_)
Reverse(s) == IF s = <<>> THEN <<>> ELSE Reverse(Tail(s)) \o <<Head(s)>>

\* ------------------------------------------------------- NotesLinkedList
\* Node: data plus the position of its add_note call in this process
Node(note_data, n) == [data |-> note_data, seq |-> n]

EmptyList == [head |-> <<>>, size |-> 0, inserted |-> 0]

\* add_note appending at the tail instead of linking before head
add_note_at_tail(l, note_data) ==
  [head |-> l.head \o <<Node(note_data, l.inserted + 1)>>,
   size |-> l.size + 1,
   inserted |-> l.inserted + 1]

add_note(l, note_data) ==
  [head |-> <<Node(note_data, l.inserted + 1)>> \o l.head,
   size |-> l.size + 1,
   inserted |-> l.inserted + 1]

\* the while loop of delete_note: current is node c; 0 when the loop runs out
RECURSIVE delete_scan(_, _, _)
delete_scan(chain, c, note_id) ==
  IF c + 1 > Len(chain) THEN 0
  ELSE IF chain[c + 1].data.id = note_id THEN c
  ELSE delete_scan(chain, c + 1, note_id)

\* unlinking that drops the rest of the list: current.next = None
Unlink_truncate(chain, c) == SubSeq(chain, 1, c)

\* current.next = current.next.next
Unlink(chain, c) == SubSeq(chain, 1, c) \o SubSeq(chain, c + 2, Len(chain))

\* delete_note whose loop unlinks without self.size -= 1
delete_note_loop_no_count(l, note_id) ==
  IF l.head = <<>> THEN [list |-> l, ret |-> FALSE]
  ELSE IF l.head[1].data.id = note_id
    THEN [list |-> [l EXCEPT !.head = Tail(l.head), !.size = l.size - 1],
          ret |-> TRUE]
  ELSE LET c == delete_scan(l.head, 1, note_id) IN
    IF c = 0 THEN [list |-> l, ret |-> FALSE]
    ELSE [list |-> [l EXCEPT !.head = Unlink(l.head, c)], ret |-> TRUE]

\* delete_note that counts down before it has found the note
delete_note_miscount(l, note_id) ==
  IF l.head = <<>> THEN [list |-> l, ret |-> FALSE]
  ELSE IF l.head[1].data.id = note_id
    THEN [list |-> [l EXCEPT !.head = Tail(l.head), !.size = l.size - 1],
          ret |-> TRUE]
  ELSE LET c == delete_scan(l.head, 1, note_id) IN
    IF c = 0 THEN [list |-> [l EXCEPT !.size = l.size - 1], ret |-> FALSE]
    ELSE [list |-> [l EXCEPT !.head = Unlink(l.head, c), !.size = l.size - 1],
          ret |-> TRUE]

\* delete_note whose head case forgets self.head = self.head.next
delete_note_keeps_head(l, note_id) ==
  IF l.head = <<>> THEN [list |-> l, ret |-> FALSE]
  ELSE IF l.head[1].data.id = note_id
    THEN [list |-> [l EXCEPT !.size = l.size - 1], ret |-> TRUE]
  ELSE LET c == delete_scan(l.head, 1, note_id) IN
    IF c = 0 THEN [list |-> l, ret |-> FALSE]
    ELSE [list |-> [l EXCEPT !.head = Unlink(l.head, c), !.size = l.size - 1],
          ret |-> TRUE]

delete_note(l, note_id) ==
  IF l.head = <<>> THEN [list |-> l, ret |-> FALSE]
  ELSE IF l.head[1].data.id = note_id
    THEN [list |-> [l EXCEPT !.head = Tail(l.head), !.size = l.size - 1],
          ret |-> TRUE]
  ELSE LET c == delete_scan(l.head, 1, note_id) IN
    IF c = 0 THEN [list |-> l, ret |-> FALSE]
    ELSE [list |-> [l EXCEPT !.head = Unlink(l.head, c), !.size = l.size - 1],
          ret |-> TRUE]

RECURSIVE get_all_notes_from(_)
get_all_notes_from(chain) ==
  IF chain = <<>> THEN <<>>
  ELSE <<chain[1].data>> \o get_all_notes_from(Tail(chain))

get_all_notes(l) == get_all_notes_from(l.head)

RECURSIVE get_deleted_notes_from(_)
get_deleted_notes_from(chain) ==
  IF chain = <<>> THEN <<>>
  ELSE (IF chain[1].data.deleted THEN <<chain[1].data>> ELSE <<>>)
         \o get_deleted_notes_from(Tail(chain))

\* get_deleted_notes returning at its first trashed note
get_deleted_notes_first(l) ==
  LET deleted == get_deleted_notes_from(l.head) IN
  IF deleted = <<>> THEN <<>> ELSE <<deleted[1]>>

get_deleted_notes(l) == get_deleted_notes_from(l.head)

\* the while loop of the soft-delete route: index of the node found, 0 if none
RECURSIVE find_scan(_, _, _)
find_scan(chain, c, note_id) ==
  IF c > Len(chain) THEN 0
  ELSE IF chain[c].data.id = note_id THEN c
  ELSE find_scan(chain, c + 1, note_id)

\* the while loop of restore_note: index of the node it stops at, 0 if none
RECURSIVE restore_scan(_, _, _)
restore_scan(chain, c, note_id) ==
  IF c > Len(chain) THEN 0
  ELSE IF chain[c].data.id = note_id /\ chain[c].data.deleted THEN c
  ELSE restore_scan(chain, c + 1, note_id)

\* restore_note whose loop tests the id only, not the deleted flag
restore_note_any(l, note_id) ==
  LET c == find_scan(l.head, 1, note_id) IN
  IF c = 0 THEN [list |-> l, ret |-> FALSE]
  ELSE [list |-> [l EXCEPT !.head[c].data.deleted = FALSE], ret |-> TRUE]

\* restore_note whose loop does not return at the first trashed match
restore_note_all(l, note_id) ==
  [list |-> [l EXCEPT !.head = [i \in DOMAIN l.head |->
               IF l.head[i].data.id = note_id
               THEN [l.head[i] EXCEPT !.data.deleted = FALSE] ELSE l.head[i]]],
   ret |-> restore_scan(l.head, 1, note_id) # 0]

restore_note(l, note_id) ==
  LET c == restore_scan(l.head, 1, note_id) IN
  IF c = 0 THEN [list |-> l, ret |-> FALSE]
  ELSE [list |-> [l EXCEPT !.head[c].data.deleted = FALSE], ret |-> TRUE]

\* soft delete that looks among the active notes only
mark_deleted_active_only(l, note_id) ==
  LET c == restore_scan([i \in DOMAIN l.head |->
                 [l.head[i] EXCEPT !.data.deleted = ~l.head[i].data.deleted]],
               1, note_id) IN
  IF c = 0 THEN [list |-> l, ret |-> FALSE]
  ELSE [list |-> [l EXCEPT !.head[c].data.deleted = TRUE], ret |-> TRUE]

\* soft delete whose loop does not stop at the first match
mark_deleted_all(l, note_id) ==
  [list |-> [l EXCEPT !.head = [i \in DOMAIN l.head |->
               IF l.head[i].data.id = note_id
               THEN [l.head[i] EXCEPT !.data.deleted = TRUE] ELSE l.head[i]]],
   ret |-> find_scan(l.head, 1, note_id) # 0]

mark_deleted(l, note_id) ==
  LET c == find_scan(l.head, 1, note_id) IN
  IF c = 0 THEN [list |-> l, ret |-> FALSE]
  ELSE [list |-> [l EXCEPT !.head[c].data.deleted = TRUE], ret |-> TRUE]

\* ----------------------------------------------------- JournalAppBackend
\* journal_data.json: absent, a JSON array of notes, or a torn write
NoFile == [state |-> "missing", notes |-> <<>>]

\* how a save_data call can end: written, open() failed, json.dump failed
SaveOutcomes == {"ok", "open_failed", "write_failed"}

\* save_data writing the notes oldest first
save_data_oldest_first(l, f, outcome) ==
  IF outcome = "ok" THEN [state |-> "ok", notes |-> Reverse(get_all_notes(l))]
  ELSE IF outcome = "open_failed" THEN f
  ELSE [state |-> "corrupt", notes |-> <<>>]

save_data(l, f, outcome) ==
  IF outcome = "ok" THEN [state |-> "ok", notes |-> get_all_notes(l)]
  ELSE IF outcome = "open_failed" THEN f
  ELSE [state |-> "corrupt", notes |-> <<>>]

RECURSIVE load_each(_, _)
load_each(l, notes_data) ==
  IF notes_data = <<>> THEN l
  ELSE load_each(add_note(l, Head(notes_data)), Tail(notes_data))

\* load_data that keeps the records it could read of a file it cannot parse
load_data_salvage(f) ==
  IF f.state = "missing" THEN EmptyList
  ELSE load_each(EmptyList, Reverse(f.notes))

\* load_data iterating notes_data without reversed()
load_data_unreversed(f) ==
  IF f.state = "missing" THEN EmptyList
  ELSE IF f.state = "corrupt" THEN EmptyList
  ELSE load_each(EmptyList, f.notes)

\* load_data run twice over the same file
load_data_twice(f) ==
  IF f.state = "missing" THEN EmptyList
  ELSE IF f.state = "corrupt" THEN EmptyList
  ELSE load_each(load_each(EmptyList, Reverse(f.notes)), Reverse(f.notes))

load_data(f) ==
  IF f.state = "missing" THEN EmptyList
  ELSE IF f.state = "corrupt" THEN EmptyList
  ELSE load_each(EmptyList, Reverse(f.notes))

\* the response of the last request and whether it called save_data
Resp(op, note_id, status, save) ==
  [op |-> op, note_id |-> note_id, status |-> status, save |-> save]

\* request threads of the server started by run(); each is idle or inside one
\* handler, holding that handler's local variables
Threads == {"t1", "t2"}

IdleHandler ==
  [pc |-> "idle", op |-> "none", note_id |-> 0, status |-> 0, all_notes |-> <<>>]

Init ==
  /\ data_file = NoFile
  /\ notes_list = load_data(data_file)
  /\ last = Resp("init", 0, 0, "none")
  /\ handlers = [t \in Threads |-> IdleHandler]

\* defaults filled in by POST /api/notes
fill_defaults(req, now) ==
  LET a == IF FalsyStr(req, "date") THEN Put(req, "date", now.iso) ELSE req
      b == IF FalsyInt(a, "id") THEN Put(a, "id", now.ms) ELSE a
      c == IF ~Has(b, "photos") THEN Put(b, "photos", <<>>) ELSE b
      d == IF ~Has(c, "title") THEN Put(c, "title", "") ELSE c
  IN  IF ~Has(d, "deleted") THEN Put(d, "deleted", FALSE) ELSE d

\* validation that looks at text only
missing_required_text_only(req) == FalsyStr(req, "text")

\* not note_data.get('text') or not note_data.get('mood')
missing_required(req) ==
  IF FalsyStr(req, "text") THEN TRUE ELSE FalsyStr(req, "mood")

route_add_note_reject(req) ==
  /\ missing_required(req)
  /\ last' = Resp("add_note", 0, 400, "none")
  /\ UNCHANGED <<notes_list, data_file, handlers>>

\* create route that takes the note out again when the save did not go through
route_add_note_ok_rollback(req, now, outcome) ==
  /\ ~missing_required(req)
  /\ notes_list.inserted < MaxInserts
  /\ LET note_data == fill_defaults(req, now)
         added == add_note(notes_list, note_data) IN
       /\ notes_list' = IF outcome = "ok" THEN added ELSE notes_list
       /\ data_file' = save_data(added, data_file, outcome)
       /\ last' = Resp("add_note", note_data.id, 201, outcome)
       /\ UNCHANGED handlers

route_add_note_ok(req, now, outcome) ==
  /\ ~missing_required(req)
  /\ notes_list.inserted < MaxInserts
  /\ LET note_data == fill_defaults(req, now) IN
       /\ notes_list' = add_note(notes_list, note_data)
       /\ data_file' = save_data(notes_list', data_file, outcome)
       /\ last' = Resp("add_note", note_data.id, 201, outcome)
       /\ UNCHANGED handlers

route_add_note ==
  \E req \in Requests :
     \/ route_add_note_reject(req)
     \/ \E now \in Nows, outcome \in SaveOutcomes :
          route_add_note_ok(req, now, outcome)

\* shared shape of the three id routes: act, save on success, else 404
IdRoute(op, r, note_id) ==
  \/ /\ r.ret
     /\ \E outcome \in SaveOutcomes :
          /\ notes_list' = r.list
          /\ data_file' = save_data(r.list, data_file, outcome)
          /\ last' = Resp(op, note_id, 200, outcome)
          /\ UNCHANGED handlers
  \/ /\ ~r.ret
     /\ notes_list' = r.list
     /\ UNCHANGED <<data_file, handlers>>
     /\ last' = Resp(op, note_id, 404, "none")

route_delete_note ==
  \E note_id \in Ids : IdRoute("delete_note", mark_deleted(notes_list, note_id), note_id)

route_restore_note ==
  \E note_id \in Ids : IdRoute("restore_note", restore_note(notes_list, note_id), note_id)

permanently_delete ==
  \E note_id \in Ids : IdRoute("permanently_delete", delete_note(notes_list, note_id), note_id)

\* the process is started again: __init__ builds a new list and loads the file
Restart ==
  /\ notes_list' = load_data(data_file)
  /\ UNCHANGED <<data_file, handlers>>
  /\ last' = Resp("init", 0, 0, "none")

Next ==
  \/ route_add_note
  \/ route_delete_note
  \/ route_restore_note
  \/ permanently_delete
  \/ Restart

Spec == Init /\ [][Next]_vars

\* ------------------------------------------------------------ properties
Chain == notes_list.head

IdsOf(notes) == {notes[i].id : i \in DOMAIN notes}
HasId(l, note_id) == \E i \in DOMAIN l.head : l.head[i].data.id = note_id
Count(l, note_id) == Cardinality({i \in DOMAIN l.head : l.head[i].data.id = note_id})
UniqueIds(notes) ==
  \A i, j \in DOMAIN notes : notes[i].id = notes[j].id => i = j

Succeeded(op) == last.op = op /\ last.status \in {200, 201}

\* C1: get_all_notes lists the nodes of the store most recently added first:
\* along the list every node was inserted after the node that follows it,
\* whatever adds, soft-deletes, restores and permanent deletes came before.
C1_InsertionOrder ==
  /\ Len(get_all_notes(notes_list)) = Len(Chain)
  /\ \A i \in DOMAIN Chain : get_all_notes(notes_list)[i] = Chain[i].data
  /\ \A i, j \in DOMAIN Chain : i < j => Chain[i].seq > Chain[j].seq

C1_Witness ==
  /\ Succeeded("permanently_delete")
  /\ Len(Chain) >= 2
  /\ \E i \in DOMAIN Chain : Chain[i].data.deleted

\* what C2 says of the state after a successful permanent delete of note_id
Purged(l, note_id) ==
  /\ note_id \notin IdsOf(get_all_notes(l))
  /\ note_id \notin IdsOf(get_deleted_notes(l))
  /\ ~restore_note(l, note_id).ret
  /\ ~delete_note(l, note_id).ret

\* C2 as stated: right after a permanent delete of an id answers found, the
\* id is gone from every listing and restore/delete of it answer not-found.
C2_Original == Succeeded("permanently_delete") => Purged(notes_list, last.note_id)

\* C2 amended: a permanent delete that answers found removes exactly one note
\* with that id; when that note was the only one with the id, the id is gone
\* from every listing and restore/delete of it answer not-found.
C2_TerminalWhenSingle ==
  [][(last'.op = "permanently_delete" /\ last'.status = 200) =>
       /\ Count(notes_list', last'.note_id) = Count(notes_list, last'.note_id) - 1
       /\ Count(notes_list, last'.note_id) = 1 => Purged(notes_list', last'.note_id)]_vars

C2_Witness ==
  /\ Succeeded("permanently_delete")
  /\ Purged(notes_list, last.note_id)
  /\ Len(Chain) >= 1

\* C3 as stated: no two notes of the store share an id.
C3_Original == UniqueIds(get_all_notes(notes_list))

\* a step that adds a note whose id a note of the store already has: a create
\* with that id, or a start-up load of a file holding the id twice
AddsHeldId ==
  \/ last'.op = "add_note" /\ last'.status = 201 /\ HasId(notes_list, last'.note_id)
  \/ last'.op = "init" /\ ~UniqueIds(data_file.notes)

\* C3 amended: ids stay unique across every step except one that adds a note
\* whose id is already held by a note of the store.
C3_UniqueUnlessHeldIdAdded ==
  [][(UniqueIds(get_all_notes(notes_list)) /\ ~AddsHeldId)
        => UniqueIds(get_all_notes(notes_list'))]_vars

C3_Witness ==
  /\ Succeeded("add_note")
  /\ Len(Chain) >= 2
  /\ UniqueIds(get_all_notes(notes_list))

\* position of the first (most recently added) note with the id; 0 if none
FirstIdx(chain, note_id) ==
  IF \E i \in DOMAIN chain : chain[i].data.id = note_id
  THEN CHOOSE i \in DOMAIN chain :
         /\ chain[i].data.id = note_id
         /\ \A j \in 1..(i - 1) : chain[j].data.id # note_id
  ELSE 0

\* position of the first trashed note with the id; 0 if none
FirstTrashedIdx(chain, note_id) ==
  IF \E i \in DOMAIN chain : chain[i].data.id = note_id /\ chain[i].data.deleted
  THEN CHOOSE i \in DOMAIN chain :
         /\ chain[i].data.id = note_id /\ chain[i].data.deleted
         /\ \A j \in 1..(i - 1) : ~(chain[j].data.id = note_id /\ chain[j].data.deleted)
  ELSE 0

HasActive(chain, note_id) ==
  \E i \in DOMAIN chain : chain[i].data.id = note_id /\ ~chain[i].data.deleted

\* C4 as stated: a soft-delete answers success only for an id held by an
\* active note; otherwise it answers not-found and store and file are unchanged.
C4_Original ==
  [][last'.op = "delete_note" =>
       IF HasActive(Chain, last'.note_id) THEN last'.status = 200
       ELSE /\ last'.status = 404
            /\ notes_list' = notes_list
            /\ data_file' = data_file]_vars

\* C4 amended: a soft-delete answers success exactly when some note of the
\* store, active or already trashed, has the id, and then the first such note
\* is trashed; otherwise it answers not-found and store and file are unchanged.
C4_SuccessIffHeld ==
  [][last'.op = "delete_note" =>
       IF HasId(notes_list, last'.note_id)
       THEN /\ last'.status = 200
            /\ Chain'[FirstIdx(Chain, last'.note_id)].data.deleted
       ELSE /\ last'.status = 404
            /\ last'.save = "none"
            /\ notes_list' = notes_list
            /\ data_file' = data_file]_vars

C4_Witness ==
  /\ Succeeded("delete_note")
  /\ Cardinality({i \in DOMAIN Chain : Chain[i].data.deleted}) >= 2
  /\ Chain[FirstIdx(Chain, last.note_id)].data.deleted

\* mark_deleted then restore_note of the same id: both found, store as before
RoundTrip(l, note_id) ==
  LET m == mark_deleted(l, note_id)
      r == restore_note(m.list, note_id)
  IN  m.ret /\ r.ret /\ r.list = l

NoTrashed(chain, note_id) == FirstTrashedIdx(chain, note_id) = 0

\* C5 as stated: for every id of an active note the soft-delete/restore round
\* trip reports found twice and leaves the store as it was; restore of an id
\* with no trashed note answers not-found.
C5_Original ==
  \A note_id \in Ids :
     /\ HasActive(Chain, note_id) => RoundTrip(notes_list, note_id)
     /\ NoTrashed(Chain, note_id) => ~restore_note(notes_list, note_id).ret

\* C5 amended: the round trip is the identity for every id whose first (most
\* recently added) note is active; restore of an id with no trashed note
\* answers not-found and leaves the store as it was.
C5_RoundTripFirstActive ==
  \A note_id \in Ids :
     /\ (HasId(notes_list, note_id)
          /\ ~Chain[FirstIdx(Chain, note_id)].data.deleted)
        => RoundTrip(notes_list, note_id)
     /\ NoTrashed(Chain, note_id)
        => /\ ~restore_note(notes_list, note_id).ret
           /\ restore_note(notes_list, note_id).list = notes_list

C5_Witness ==
  /\ Succeeded("restore_note")
  /\ Len(Chain) >= 2
  /\ FirstIdx(Chain, last.note_id) > 1
  /\ ~Chain[FirstIdx(Chain, last.note_id)].data.deleted
  /\ \E i \in DOMAIN Chain : Chain[i].data.deleted

IdOps == {"delete_note", "restore_note", "permanently_delete"}

\* every node of the list other than node k is still in the list after the step
Untouched(k) ==
  \A i \in DOMAIN Chain \ {k} : \E j \in DOMAIN Chain' : Chain'[j] = Chain[i]

\* C6 as stated: with two notes sharing an id, a successful soft-delete,
\* restore or permanent delete of that id leaves every note but the first one
\* with the id as it was.
C6_Original ==
  [][(last'.op \in IdOps /\ last'.status = 200
        /\ Count(notes_list, last'.note_id) >= 2)
       => Untouched(FirstIdx(Chain, last'.note_id))]_vars

\* the node the call is to act on
Target(op, note_id) ==
  IF op = "restore_note" THEN FirstTrashedIdx(Chain, note_id)
  ELSE FirstIdx(Chain, note_id)

\* C6 amended: soft-delete and permanent delete act on the first note with the
\* id, restore acts on the first trashed note with the id (an older note when
\* the more recent ones are active); no other note is modified or removed.
C6_ActsOnOneNote ==
  [][(last'.op \in IdOps /\ last'.status = 200) =>
       LET k == Target(last'.op, last'.note_id) IN
       /\ k # 0
       /\ Untouched(k)
       /\ Len(Chain') = IF last'.op = "permanently_delete"
                        THEN Len(Chain) - 1 ELSE Len(Chain)
       /\ \A j \in DOMAIN Chain' : Chain'[j].seq = Chain[k].seq =>
            /\ last'.op # "permanently_delete"
            /\ Chain'[j].data =
                 [Chain[k].data EXCEPT !.deleted = (last'.op = "delete_note")]]_vars

C6_Witness ==
  /\ Succeeded("restore_note")
  /\ Count(notes_list, last.note_id) >= 2
  /\ FirstIdx(Chain, last.note_id) = 1
  /\ \A i \in DOMAIN Chain : ~Chain[i].data.deleted

MutatingOps == {"add_note", "delete_note", "restore_note", "permanently_delete"}

\* the notes of the store, head first
StoreNotes == [i \in DOMAIN Chain |-> Chain[i].data]

\* C7: once a create, soft-delete, restore or permanent delete has answered
\* success and its file write went through, the file holds exactly the notes
\* of the store, field for field, in store order; every such request saves.
C7_WriteThrough ==
  (last.op \in MutatingOps /\ last.status \in {200, 201}) =>
     /\ last.save # "none"
     /\ last.save = "ok" => (data_file.state = "ok" /\ data_file.notes = StoreNotes)

C7_Witness ==
  /\ Succeeded("permanently_delete")
  /\ last.save = "ok"
  /\ Len(Chain) >= 2
  /\ Chain[1].data # Chain[2].data
  /\ data_file.notes = StoreNotes

\* C8: saving the store and loading the file into an empty store gives the
\* same number of notes, the same notes field for field (deleted flag
\* included) and the same most-recent-first order; a start-up from a written
\* file holds the file's notes in the file's order.
C8_SaveLoadRoundTrip ==
  LET loaded == load_data(save_data(notes_list, data_file, "ok")) IN
  /\ loaded.size = notes_list.size
  /\ Len(loaded.head) = Len(Chain)
  /\ \A i \in DOMAIN Chain : loaded.head[i].data = Chain[i].data
  /\ (last.op = "init" /\ data_file.state = "ok") => StoreNotes = data_file.notes

C8_Witness ==
  /\ last.op = "init"
  /\ data_file.state = "ok"
  /\ Len(Chain) >= 2
  /\ Chain[1].data # Chain[2].data
  /\ \E i \in DOMAIN Chain : Chain[i].data.deleted

\* C9: a soft-delete, restore or permanent delete that answers not-found
\* leaves the store (notes, flags, order, count) as it was and does not save.
C9_NotFoundNoMutation ==
  [][(last'.op \in IdOps /\ last'.status = 404) =>
       /\ notes_list' = notes_list
       /\ data_file' = data_file
       /\ last'.save = "none"]_vars

C9_Witness ==
  /\ last.op = "permanently_delete"
  /\ last.status = 404
  /\ Len(Chain) >= 2
  /\ data_file.state = "ok"

\* text or mood absent or empty in a request body
MissingTextOrMood(req) ==
  ~(/\ Has(req, "text") /\ req.text # ""
    /\ Has(req, "mood") /\ req.mood # "")

BodiesMissingTextOrMood == {req \in Requests : MissingTextOrMood(req)}

\* the step is POST /api/notes handling body req
AddNoteStep(req) ==
  \/ route_add_note_reject(req)
  \/ \E now \in Nows, outcome \in SaveOutcomes : route_add_note_ok(req, now, outcome)

\* C10: a create request whose text or mood is missing or empty is answered
\* 400 and changes neither the store, its count nor the file, and saves nothing.
C10_InvalidCreateRejected ==
  [][\A req \in BodiesMissingTextOrMood :
       AddNoteStep(req) =>
          /\ last'.op = "add_note"
          /\ last'.status = 400
          /\ last'.save = "none"
          /\ notes_list' = notes_list
          /\ data_file' = data_file]_vars

C10_Witness ==
  /\ last.op = "add_note"
  /\ last.status = 400
  /\ notes_list.size >= 1
  /\ data_file.state = "ok"

FailedSaves == {"open_failed", "write_failed"}

\* the step carried out the mutation that request op of note_id asks for
Applied(op, note_id) ==
  CASE op = "add_note" ->
         /\ Len(Chain') = Len(Chain) + 1
         /\ Chain'[1].data.id = note_id
         /\ Tail(Chain') = Chain
    [] op = "delete_note" ->
         /\ Len(Chain') = Len(Chain)
         /\ Chain'[FirstIdx(Chain, note_id)].data.deleted
    [] op = "restore_note" ->
         /\ Len(Chain') = Len(Chain)
         /\ ~Chain'[FirstTrashedIdx(Chain, note_id)].data.deleted
    [] op = "permanently_delete" -> Len(Chain') = Len(Chain) - 1

\* C11: a mutating request whose save fails still answers success and keeps
\* its mutation in the store, the file staying as it was or torn; a mutating
\* request whose save goes through leaves the file equal to the whole store,
\* earlier unsaved mutations included.
C11_SaveFailureKeepsMutation ==
  [][last'.op \in MutatingOps =>
       /\ last'.save \in FailedSaves =>
            /\ last'.status \in {200, 201}
            /\ Applied(last'.op, last'.note_id)
            /\ last'.save = "open_failed" => data_file' = data_file
            /\ last'.save = "write_failed" => data_file'.state = "corrupt"
       /\ last'.save = "ok" =>
            /\ Applied(last'.op, last'.note_id)
            /\ data_file'.state = "ok"
            /\ data_file'.notes = [i \in DOMAIN Chain' |-> Chain'[i].data]]_vars

C11_Witness ==
  /\ last.op \in MutatingOps
  /\ last.status \in {200, 201}
  /\ last.save = "open_failed"
  /\ data_file.state = "ok"
  /\ data_file.notes # StoreNotes
  /\ Len(data_file.notes) >= 1
  /\ Len(Chain) >= 1

FlagOps == {"delete_note", "restore_note"}

\* C12: a soft-delete or restore step leaves the count, the length and the
\* order of the store as they were, changes at most one note, and changes
\* nothing of that note but its deleted flag.
C12_FlagFrame ==
  [][last'.op \in FlagOps =>
       /\ notes_list'.size = notes_list.size
       /\ notes_list'.inserted = notes_list.inserted
       /\ Len(Chain') = Len(Chain)
       /\ \A i \in DOMAIN Chain :
            Chain'[i] = [Chain[i] EXCEPT !.data.deleted = Chain'[i].data.deleted]
       /\ Cardinality({i \in DOMAIN Chain : Chain'[i] # Chain[i]}) <= 1]_vars

C12_Witness ==
  /\ Succeeded("delete_note")
  /\ Len(Chain) >= 3
  /\ \E i \in DOMAIN Chain : Chain[i].data.deleted /\ Chain[i].data.photos # <<>>
  /\ \E i \in DOMAIN Chain : ~Chain[i].data.deleted

\* the nodes of the store, named by the number of their add_note call
Seqs(chain) == {chain[i].seq : i \in DOMAIN chain}

\* C15: the set of notes in the store gains exactly one note on every
\* successful create, loses exactly one note on every permanent delete that
\* answers found, and is the same after every soft-delete, restore, rejected
\* create and not-found answer.
C15_OnlyPurgeRemoves ==
  [][last'.op \in MutatingOps =>
       IF last'.op = "add_note" /\ last'.status = 201
       THEN /\ notes_list'.inserted \notin Seqs(Chain)
            /\ Seqs(Chain') = Seqs(Chain) \cup {notes_list'.inserted}
            /\ Len(Chain') = Len(Chain) + 1
       ELSE IF last'.op = "permanently_delete" /\ last'.status = 200
       THEN /\ Seqs(Chain') \subseteq Seqs(Chain)
            /\ Cardinality(Seqs(Chain) \ Seqs(Chain')) = 1
            /\ Len(Chain') = Len(Chain) - 1
       ELSE /\ Seqs(Chain') = Seqs(Chain)
            /\ Len(Chain') = Len(Chain)]_vars

C15_Witness ==
  /\ Succeeded("permanently_delete")
  /\ notes_list.inserted = 3
  /\ Seqs(Chain) = {1, 3}

\* ---------------------------------------------------------------- queries
\* dict.get('deleted', False)
DeletedOf(d) == IF Has(d, "deleted") THEN d.deleted ELSE FALSE

\* dict.get('photos') is truthy
HasPhotos(d) == IF Has(d, "photos") THEN d.photos # <<>> ELSE FALSE

\* the dict appended for one photo of one note
PhotoRecord(d, photo_data) ==
  [src |-> photo_data, mood |-> d.mood, date |-> d.date, text |-> d.text,
   note_id |-> d.id, deleted |-> DeletedOf(d)]

\* the for loop over current.data['photos']
RECURSIVE photos_of_note(_, _)
photos_of_note(d, photo_list) ==
  IF photo_list = <<>> THEN <<>>
  ELSE <<PhotoRecord(d, Head(photo_list))>> \o photos_of_note(d, Tail(photo_list))

\* get_notes_with_photos leaving trashed notes out
RECURSIVE get_notes_with_photos_active_from(_)
get_notes_with_photos_active_from(chain) ==
  IF chain = <<>> THEN <<>>
  ELSE (IF HasPhotos(chain[1].data) /\ ~DeletedOf(chain[1].data)
        THEN photos_of_note(chain[1].data, chain[1].data.photos) ELSE <<>>)
         \o get_notes_with_photos_active_from(Tail(chain))

RECURSIVE get_notes_with_photos_from(_)
get_notes_with_photos_from(chain) ==
  IF chain = <<>> THEN <<>>
  ELSE (IF HasPhotos(chain[1].data)
        THEN photos_of_note(chain[1].data, chain[1].data.photos) ELSE <<>>)
         \o get_notes_with_photos_from(Tail(chain))

get_notes_with_photos_active(l) == get_notes_with_photos_active_from(l.head)

get_notes_with_photos(l) == get_notes_with_photos_from(l.head)

\* number of photos of the notes in front of note i
RECURSIVE PhotosBefore(_, _)
PhotosBefore(notes, i) ==
  IF i <= 1 THEN 0 ELSE PhotosBefore(notes, i - 1) + Len(notes[i - 1].photos)

\* C13: get_notes_with_photos holds one record per photo of every note of the
\* store, trashed or not, in store order and then photo order, each record
\* with its note's id, mood, date, text and deleted flag; a note without
\* photos adds no record.
C13_PhotoFlattening ==
  LET records == get_notes_with_photos(notes_list) IN
  /\ Len(records) = PhotosBefore(StoreNotes, Len(StoreNotes) + 1)
  /\ \A i \in DOMAIN StoreNotes : \A j \in DOMAIN StoreNotes[i].photos :
       records[PhotosBefore(StoreNotes, i) + j] =
         [src |-> StoreNotes[i].photos[j],
          mood |-> StoreNotes[i].mood,
          date |-> StoreNotes[i].date,
          text |-> StoreNotes[i].text,
          note_id |-> StoreNotes[i].id,
          deleted |-> StoreNotes[i].deleted]

C13_Witness ==
  /\ Len(get_notes_with_photos(notes_list)) = 4
  /\ Len(Chain) = 3
  /\ Chain[2].data.photos = <<>>
  /\ Chain[1].data.deleted
  /\ ~Chain[3].data.deleted

\* ------------------------------------------------------- dates and filters
\* date.split('T')[0] on the dates notes carry here
DatePortion(date) ==
  CASE date = "2024-02-29T10:00:00" -> "2024-02-29"
    [] date = "2024-03-01T09:00:00" -> "2024-03-01"

\* datetime.fromisoformat(...) of a date portion
FromIso(day) ==
  CASE day = "2024-02-29" -> [year |-> 2024, month |-> 2, day |-> 29]
    [] day = "2024-03-01" -> [year |-> 2024, month |-> 3, day |-> 1]

IsLeap(y) == (y % 4 = 0 /\ y % 100 # 0) \/ y % 400 = 0

DaysInMonth(y, m) ==
  IF m = 2 THEN (IF IsLeap(y) THEN 29 ELSE 28)
  ELSE IF m \in {4, 6, 9, 11} THEN 30 ELSE 31

\* d - timedelta(days=1)
PrevDay(d) ==
  IF d.day > 1 THEN [d EXCEPT !.day = d.day - 1]
  ELSE IF d.month > 1
    THEN [year |-> d.year, month |-> d.month - 1,
          day |-> DaysInMonth(d.year, d.month - 1)]
  ELSE [year |-> d.year - 1, month |-> 12, day |-> 31]

\* d - timedelta(days=n)
RECURSIVE MinusDays(_, _)
MinusDays(d, n) == IF n = 0 THEN d ELSE MinusDays(PrevDay(d), n - 1)

\* order of dates, which is the order of their isoformat() strings
Before(a, b) ==
  \/ a.year < b.year
  \/ a.year = b.year /\ a.month < b.month
  \/ a.year = b.year /\ a.month = b.month /\ a.day < b.day

\* readings of datetime.now().date() and the query parameters tried
Todays == {[year |-> 2024, month |-> 3, day |-> 1],
           [year |-> 2024, month |-> 3, day |-> 9]}
DateFilters == {"all", "today", "week", "month"}
MoodFilters == {"all", "happy", "sad"}
CalendarMonths == {<<2024, 2>>, <<2024, 3>>, <<2023, 12>>}

\* photo_passes without the check of the deleted flag
photo_passes_with_trashed(photo, date_filter, mood_filter, today) ==
  LET photo_date == FromIso(DatePortion(photo.date)) IN
    IF date_filter = "today" /\ photo_date # today THEN FALSE
    ELSE IF date_filter = "week" /\ Before(photo_date, MinusDays(today, 7)) THEN FALSE
    ELSE IF date_filter = "month"
            /\ (photo_date.month # today.month \/ photo_date.year # today.year)
      THEN FALSE
    ELSE IF mood_filter # "all" /\ photo.mood # mood_filter THEN FALSE
    ELSE TRUE

\* the body of the for loop of get_photos: TRUE when the photo is appended
photo_passes(photo, date_filter, mood_filter, today) ==
  IF photo.deleted THEN FALSE
  ELSE LET photo_date == FromIso(DatePortion(photo.date)) IN
    IF date_filter = "today" /\ photo_date # today THEN FALSE
    ELSE IF date_filter = "week" /\ Before(photo_date, MinusDays(today, 7)) THEN FALSE
    ELSE IF date_filter = "month"
            /\ (photo_date.month # today.month \/ photo_date.year # today.year)
      THEN FALSE
    ELSE IF mood_filter # "all" /\ photo.mood # mood_filter THEN FALSE
    ELSE TRUE

RECURSIVE filter_photos(_, _, _, _)
filter_photos(all_photos, date_filter, mood_filter, today) ==
  IF all_photos = <<>> THEN <<>>
  ELSE (IF photo_passes(Head(all_photos), date_filter, mood_filter, today)
        THEN <<Head(all_photos)>> ELSE <<>>)
         \o filter_photos(Tail(all_photos), date_filter, mood_filter, today)

get_photos(l, date_filter, mood_filter, today) ==
  filter_photos(get_notes_with_photos(l), date_filter, mood_filter, today)

\* first and last day of the month asked for
start_date(year, month) == [year |-> year, month |-> month, day |-> 1]
end_date(year, month) ==
  IF month = 12 THEN PrevDay([year |-> year + 1, month |-> 1, day |-> 1])
  ELSE PrevDay([year |-> year, month |-> month + 1, day |-> 1])

\* start_date <= note_dt <= end_date
InRange(d, lo, hi) == ~Before(d, lo) /\ ~Before(hi, d)

\* the body of the while loop of get_calendar_data on one node
calendar_add(calendar_data, d, lo, hi) ==
  IF DeletedOf(d) THEN calendar_data
  ELSE LET note_date == DatePortion(d.date) IN
    IF ~InRange(FromIso(note_date), lo, hi) THEN calendar_data
    ELSE IF Has(calendar_data, note_date)
      THEN [calendar_data EXCEPT ![note_date].notes = Append(@, d)]
    ELSE Put(calendar_data, note_date, [notes |-> <<d>>])

RECURSIVE calendar_loop(_, _, _, _)
calendar_loop(calendar_data, chain, lo, hi) ==
  IF chain = <<>> THEN calendar_data
  ELSE calendar_loop(calendar_add(calendar_data, chain[1].data, lo, hi),
                     Tail(chain), lo, hi)

get_calendar_data(l, year, month) ==
  calendar_loop(EmptyDict, l.head, start_date(year, month), end_date(year, month))

Range(seq) == {seq[i] : i \in DOMAIN seq}

\* the photo records of the active notes, in store order
ActivePhotos == SelectSeq(get_notes_with_photos(notes_list), LAMBDA p : ~p.deleted)

\* the active notes of the store dated in the month, in store order
ActiveInMonth(year, month) ==
  SelectSeq(StoreNotes,
            LAMBDA d : /\ ~d.deleted
                       /\ FromIso(DatePortion(d.date)).year = year
                       /\ FromIso(DatePortion(d.date)).month = month)

\* C16: whatever the filters and the day, the photo listing holds no record
\* of a trashed note, and unfiltered it holds every photo of every active
\* note; the calendar of a month holds no trashed note and holds every active
\* note of that month under its date.  A note therefore leaves both views
\* when it is soft-deleted and is back in them when it is restored.
C16_TrashedHidden ==
  /\ \A today \in Todays, df \in DateFilters, mf \in MoodFilters :
       /\ \A p \in Range(get_photos(notes_list, df, mf, today)) :
            ~p.deleted /\ p \in Range(ActivePhotos)
       /\ (df = "all" /\ mf = "all") =>
            get_photos(notes_list, df, mf, today) = ActivePhotos
  /\ \A ym \in CalendarMonths :
       LET calendar_data == get_calendar_data(notes_list, ym[1], ym[2]) IN
       /\ \A k \in DOMAIN calendar_data :
            \A d \in Range(calendar_data[k].notes) :
               ~d.deleted /\ DatePortion(d.date) = k
       /\ \A d \in Range(ActiveInMonth(ym[1], ym[2])) :
            /\ Has(calendar_data, DatePortion(d.date))
            /\ d \in Range(calendar_data[DatePortion(d.date)].notes)

C16_Witness ==
  /\ Succeeded("restore_note")
  /\ \E i \in DOMAIN Chain : Chain[i].data.deleted /\ Chain[i].data.photos # <<>>
  /\ \E i \in DOMAIN Chain : ~Chain[i].data.deleted /\ Chain[i].data.photos # <<>>
  /\ Len(ActivePhotos) = 2
  /\ Has(get_calendar_data(notes_list, 2024, 2), "2024-02-29")

\* C17: after every step get_deleted_notes is get_all_notes with the active
\* notes left out, order kept, and get_all_notes holds every note of the
\* store; the deleted flag of a note changes only to true by a soft-delete
\* that answers success for it and only to false by a restore that answers
\* success for it, so a note is trashed exactly when the last such request
\* on it was a soft-delete, or when there was none and it was added trashed.
C17_TrashListing ==
  [][/\ get_deleted_notes(notes_list') =
          SelectSeq(get_all_notes(notes_list'), LAMBDA d : d.deleted)
     /\ Len(get_all_notes(notes_list')) = notes_list'.size
     /\ (\E i \in DOMAIN Chain' : Chain'[i].data.deleted)
          => get_deleted_notes(notes_list') # <<>>
     /\ last'.op # "init" =>
          /\ \A i \in DOMAIN Chain, j \in DOMAIN Chain' :
               (Chain'[j].seq = Chain[i].seq
                  /\ Chain'[j].data.deleted # Chain[i].data.deleted) =>
                 /\ last'.status = 200
                 /\ IF Chain'[j].data.deleted
                    THEN /\ last'.op = "delete_note"
                         /\ i = FirstIdx(Chain, last'.note_id)
                    ELSE /\ last'.op = "restore_note"
                         /\ i = FirstTrashedIdx(Chain, last'.note_id)
          /\ (last'.op = "delete_note" /\ last'.status = 200) =>
               Chain'[FirstIdx(Chain, last'.note_id)].data.deleted
          /\ (last'.op = "restore_note" /\ last'.status = 200) =>
               ~Chain'[FirstTrashedIdx(Chain, last'.note_id)].data.deleted]_vars

C17_Witness ==
  /\ Succeeded("delete_note")
  /\ Len(Chain) = 3
  /\ Len(get_deleted_notes(notes_list)) = 2
  /\ ~Chain[2].data.deleted
  /\ get_deleted_notes(notes_list) = <<Chain[1].data, Chain[3].data>>

\* a file torn after its first k records
TornAfter(k) == [state |-> "corrupt", notes |-> SubSeq(StoreNotes, 1, k)]

\* C18: a start-up with the file missing, or present but not readable as
\* JSON, gives the empty store with count 0, whatever part of its records the
\* file still shows; a start-up with a written file gives all of its records.
\* The store never holds only some of them.
C18_LoadAllOrNothing ==
  /\ load_data(NoFile) = EmptyList
  /\ \A k \in 0..Len(StoreNotes) : load_data(TornAfter(k)) = EmptyList
  /\ last.op = "init" =>
       /\ data_file.state \in {"missing", "corrupt"} =>
            (Chain = <<>> /\ notes_list.size = 0)
       /\ data_file.state = "ok" =>
            /\ notes_list.size = Len(data_file.notes)
            /\ StoreNotes = data_file.notes

C18_Witness ==
  /\ last.op = "init"
  /\ data_file.state = "corrupt"
  /\ notes_list = EmptyList

\* C19: after every step size is the number of nodes reachable from head,
\* so never negative; a successful create raises it by one, a permanent
\* delete that answers found lowers it by one wherever the node stood, and
\* every other request leaves it as it was.
C19_SizeCounts ==
  [][/\ notes_list'.size = Len(Chain')
     /\ notes_list'.size >= 0
     /\ last'.op \in MutatingOps =>
          notes_list'.size =
            IF last'.op = "add_note" /\ last'.status = 201
            THEN notes_list.size + 1
            ELSE IF last'.op = "permanently_delete" /\ last'.status = 200
            THEN notes_list.size - 1
            ELSE notes_list.size]_vars

C19_Witness ==
  /\ Succeeded("permanently_delete")
  /\ notes_list.size = 2
  /\ Len(Chain) = 2
  /\ Chain[1].seq = 3
  /\ Chain[2].seq = 1

\* ------------------------------------------------ concurrently served requests
\* app.run() serves each request on a thread of its own and the handlers take
\* no lock.  A handler is cut at its calls: the store operation, then
\* get_all_notes inside save_data, then the write of the file and the response.

\* all_notes of the other handlers are lists of the very dicts of the store:
\* a flag set on a note shows in every list that holds the note
Shared(entries, chain) ==
  [i \in DOMAIN entries |->
     IF \E k \in DOMAIN chain : chain[k].seq = entries[i].seq
     THEN chain[CHOOSE k \in DOMAIN chain : chain[k].seq = entries[i].seq]
     ELSE entries[i]]

\* handler t has run its store operation; every other handler sees the store
Mutated(t, op, note_id, status) ==
  handlers' = [u \in Threads |->
     IF u = t
     THEN [pc |-> "mutated", op |-> op, note_id |-> note_id, status |-> status,
           all_notes |-> <<>>]
     ELSE [handlers[u] EXCEPT !.all_notes = Shared(@, notes_list'.head)]]

thread_add_note(t) ==
  /\ handlers[t].pc = "idle"
  /\ \E req \in Requests :
       \/ /\ missing_required(req)
          /\ last' = Resp("add_note", 0, 400, "none")
          /\ UNCHANGED <<notes_list, data_file, handlers>>
       \/ /\ ~missing_required(req)
          /\ notes_list.inserted < MaxThreadInserts
          /\ \E now \in Nows :
               LET note_data == fill_defaults(req, now) IN
               /\ notes_list' = add_note(notes_list, note_data)
               /\ Mutated(t, "add_note", note_data.id, 201)
               /\ UNCHANGED <<data_file, last>>

thread_id_route(t, op, r, note_id) ==
  /\ handlers[t].pc = "idle"
  /\ \/ /\ r.ret
        /\ notes_list' = r.list
        /\ Mutated(t, op, note_id, 200)
        /\ UNCHANGED <<data_file, last>>
     \/ /\ ~r.ret
        /\ last' = Resp(op, note_id, 404, "none")
        /\ UNCHANGED <<notes_list, data_file, handlers>>

thread_delete_note(t) ==
  \E note_id \in Ids :
     thread_id_route(t, "delete_note", mark_deleted(notes_list, note_id), note_id)

thread_restore_note(t) ==
  \E note_id \in Ids :
     thread_id_route(t, "restore_note", restore_note(notes_list, note_id), note_id)

thread_permanently_delete(t) ==
  \E note_id \in Ids :
     thread_id_route(t, "permanently_delete", delete_note(notes_list, note_id), note_id)

\* save_data: all_notes = self.notes_list.get_all_notes()
thread_get_all_notes(t) ==
  /\ handlers[t].pc = "mutated"
  /\ handlers' = [handlers EXCEPT ![t].pc = "saving",
                                  ![t].all_notes = notes_list.head]
  /\ UNCHANGED <<notes_list, data_file, last>>

\* save_data: json.dump(all_notes, f), then the route answers
thread_dump(t) ==
  /\ handlers[t].pc = "saving"
  /\ data_file' = [state |-> "ok",
                   notes |-> [i \in DOMAIN handlers[t].all_notes |->
                                handlers[t].all_notes[i].data]]
  /\ last' = Resp(handlers[t].op, handlers[t].note_id, handlers[t].status, "ok")
  /\ handlers' = [handlers EXCEPT ![t] = IdleHandler]
  /\ UNCHANGED notes_list

NextThreads ==
  \E t \in Threads :
     \/ thread_add_note(t)
     \/ thread_delete_note(t)
     \/ thread_restore_note(t)
     \/ thread_permanently_delete(t)
     \/ thread_get_all_notes(t)
     \/ thread_dump(t)

SpecThreads == Init /\ [][NextThreads]_vars

\* C14: no run of the request handlers ends, all handlers done and every save
\* having succeeded, with the file lacking a mutation that the store holds:
\* once no handler is running, the file written by the mutating requests
\* holds exactly the notes of the store.
C14_NoLostUpdate ==
  (/\ \A t \in Threads : handlers[t].pc = "idle"
   /\ last.op \in MutatingOps
   /\ last.status \in {200, 201})
  => (data_file.state = "ok" /\ data_file.notes = StoreNotes)

====
